---------------------------- MODULE Spec2Model ----------------------------
(***************************************************************************)
(* HealthGuide fever helpline (backend/app): the /api/triage request       *)
(* handler, the disease pattern scorer and the conversation store.         *)
(*                                                                         *)
(*   main.py            triage: one request, step by step                  *)
(*   fever_diseases.py  identify_fever_type, get_disease_recommendations   *)
(*   database.py        save_conversation, get_conversation                *)
(*                                                                         *)
(* red_flags.py, llm_service.py and models.py are not part of the sources  *)
(* at hand; check_red_flags, get_red_flag_response, get_llm_service,       *)
(* assess_triage and generate_response are modelled from their contracts   *)
(* in the specification (sections 4.1, 4.3, 6 and 7).                      *)
(***************************************************************************)
EXTENDS Integers, Sequences, FiniteSets, TLC

(***************************************************************************)
(* Text.  A Python str is modelled as a sequence of characters, each a      *)
(* one-character string; LF, DEGREE, WARNING_SIGN and VS16 name the code    *)
(* points U+000A, U+00B0, U+26A0 and U+FE0F.                                *)
(***************************************************************************)

\* ---- fever_diseases.py: the keys of FEVER_PATTERNS, in insertion order
dengue == <<"d","e","n","g","u","e">>
malaria == <<"m","a","l","a","r","i","a">>
typhoid == <<"t","y","p","h","o","i","d">>
viral == <<"v","i","r","a","l">>
flu == <<"f","l","u">>
covid == <<"c","o","v","i","d">>

\* ---- fever_diseases.py: FEVER_PATTERNS
FEVER_PATTERNS ==
  <<
     [ name      |-> dengue,
       keywords  |-> <<
            <<"r","a","s","h">>,
            <<"j","o","i","n","t"," ","p","a","i","n">>,
            <<"e","y","e"," ","p","a","i","n">>,
            <<"b","l","e","e","d","i","n","g"," ","g","u","m","s">>,
            <<"p","l","a","t","e","l","e","t">>,
            <<"p","e","t","e","c","h","i","a","e">>,
            <<"b","l","e","e","d","i","n","g">> >>,
       \* duration: '5-7 days'
       duration  |-> <<"5","-","7"," ","d","a","y","s">>,
       symptoms  |-> <<
            <<"h","i","g","h"," ","f","e","v","e","r">>,
            <<"s","e","v","e","r","e"," ","h","e","a","d","a","c","h","e">>,
            <<"p","a","i","n"," ","b","e","h","i","n","d"," ","e","y","e","s">>,
            <<"m","u","s","c","l","e"," ","p","a","i","n">>,
            <<"b","o","n","e"," ","p","a","i","n">> >>,
       \* alert: 'Monitor platelet count, watch for bleeding signs. Seek medical attention if bleeding occurs.'
       alert     |-> <<"M","o","n","i","t","o","r"," ","p","l","a","t","e","l","e","t"," ","c",
            "o","u","n","t",","," ","w","a","t","c","h"," ","f","o","r"," ","b","l","e","e","d","i","n",
            "g"," ","s","i","g","n","s","."," ","S","e","e","k"," ","m","e","d","i","c","a","l"," ","a",
            "t","t","e","n","t","i","o","n"," ","i","f"," ","b","l","e","e","d","i","n","g"," ","o","c",
            "c","u","r","s",".">>,
       severity  |-> "high" ],
     [ name      |-> malaria,
       keywords  |-> <<
            <<"c","h","i","l","l","s">>,
            <<"s","w","e","a","t","i","n","g">>,
            <<"c","y","c","l","i","c"," ","f","e","v","e","r">>,
            <<"s","h","i","v","e","r","i","n","g">>,
            <<"r","i","g","o","r">> >>,
       \* duration: '2-3 days cycles'
       duration  |-> <<"2","-","3"," ","d","a","y","s"," ","c","y","c","l","e","s">>,
       symptoms  |-> <<
            <<"f","e","v","e","r"," ","w","i","t","h"," ","c","h","i","l","l","s">>,
            <<"h","e","a","d","a","c","h","e">>,
            <<"n","a","u","s","e","a">>,
            <<"m","u","s","c","l","e"," ","p","a","i","n">>,
            <<"f","a","t","i","g","u","e">> >>,
       \* alert: 'Requires antimalarial treatment within 48 hours. Can be life-threatening if untreated.'
       alert     |-> <<"R","e","q","u","i","r","e","s"," ","a","n","t","i","m","a","l","a","r",
            "i","a","l"," ","t","r","e","a","t","m","e","n","t"," ","w","i","t","h","i","n"," ","4","8",
            " ","h","o","u","r","s","."," ","C","a","n"," ","b","e"," ","l","i","f","e","-","t","h","r",
            "e","a","t","e","n","i","n","g"," ","i","f"," ","u","n","t","r","e","a","t","e","d",".">>,
       severity  |-> "high" ],
     [ name      |-> typhoid,
       keywords  |-> <<
            <<"s","t","e","p","-","l","a","d","d","e","r"," ","f","e","v","e","r">>,
            <<"r","o","s","e"," ","s","p","o","t","s">>,
            <<"a","b","d","o","m","i","n","a","l"," ","p","a","i","n">>,
            <<"c","o","n","s","t","i","p","a","t","i","o","n">>,
            <<"d","i","a","r","r","h","e","a">> >>,
       \* duration: '7-14 days'
       duration  |-> <<"7","-","1","4"," ","d","a","y","s">>,
       symptoms  |-> <<
            <<"p","r","o","l","o","n","g","e","d"," ","f","e","v","e","r">>,
            <<"w","e","a","k","n","e","s","s">>,
            <<"s","t","o","m","a","c","h"," ","p","a","i","n">>,
            <<"h","e","a","d","a","c","h","e">>,
            <<"l","o","s","s"," ","o","f"," ","a","p","p","e","t","i","t","e">> >>,
       \* alert: 'Requires antibiotic treatment. Can cause complications if untreated.'
       alert     |-> <<"R","e","q","u","i","r","e","s"," ","a","n","t","i","b","i","o","t","i",
            "c"," ","t","r","e","a","t","m","e","n","t","."," ","C","a","n"," ","c","a","u","s","e"," ",
            "c","o","m","p","l","i","c","a","t","i","o","n","s"," ","i","f"," ","u","n","t","r","e","a",
            "t","e","d",".">>,
       severity  |-> "high" ],
     [ name      |-> viral,
       keywords  |-> <<
            <<"c","o","l","d">>,
            <<"c","o","u","g","h">>,
            <<"s","o","r","e"," ","t","h","r","o","a","t">>,
            <<"r","u","n","n","y"," ","n","o","s","e">>,
            <<"b","o","d","y"," ","a","c","h","e">> >>,
       \* duration: '3-5 days'
       duration  |-> <<"3","-","5"," ","d","a","y","s">>,
       symptoms  |-> <<
            <<"m","i","l","d"," ","f","e","v","e","r">>,
            <<"b","o","d","y"," ","a","c","h","e">>,
            <<"f","a","t","i","g","u","e">>,
            <<"h","e","a","d","a","c","h","e">> >>,
       \* alert: 'Usually self-limiting, supportive care recommended. Rest and hydration.'
       alert     |-> <<"U","s","u","a","l","l","y"," ","s","e","l","f","-","l","i","m","i","t",
            "i","n","g",","," ","s","u","p","p","o","r","t","i","v","e"," ","c","a","r","e"," ","r","e",
            "c","o","m","m","e","n","d","e","d","."," ","R","e","s","t"," ","a","n","d"," ","h","y","d",
            "r","a","t","i","o","n",".">>,
       severity  |-> "low" ],
     [ name      |-> flu,
       keywords  |-> <<
            <<"i","n","f","l","u","e","n","z","a">>,
            <<"b","o","d","y"," ","a","c","h","e">>,
            <<"f","a","t","i","g","u","e">>,
            <<"c","o","u","g","h">>,
            <<"s","o","r","e"," ","t","h","r","o","a","t">> >>,
       \* duration: '5-7 days'
       duration  |-> <<"5","-","7"," ","d","a","y","s">>,
       symptoms  |-> <<
            <<"f","e","v","e","r">>,
            <<"c","h","i","l","l","s">>,
            <<"b","o","d","y"," ","a","c","h","e">>,
            <<"f","a","t","i","g","u","e">>,
            <<"c","o","u","g","h">> >>,
       \* alert: 'Rest, hydration, and symptomatic treatment. Antiviral medication may help if started early.'
       alert     |-> <<"R","e","s","t",","," ","h","y","d","r","a","t","i","o","n",","," ","a",
            "n","d"," ","s","y","m","p","t","o","m","a","t","i","c"," ","t","r","e","a","t","m","e","n",
            "t","."," ","A","n","t","i","v","i","r","a","l"," ","m","e","d","i","c","a","t","i","o","n",
            " ","m","a","y"," ","h","e","l","p"," ","i","f"," ","s","t","a","r","t","e","d"," ","e","a",
            "r","l","y",".">>,
       severity  |-> "medium" ],
     [ name      |-> covid,
       keywords  |-> <<
            <<"c","o","v","i","d">>,
            <<"c","o","r","o","n","a","v","i","r","u","s">>,
            <<"l","o","s","s"," ","o","f"," ","t","a","s","t","e">>,
            <<"l","o","s","s"," ","o","f"," ","s","m","e","l","l">>,
            <<"s","h","o","r","t","n","e","s","s"," ","o","f"," ","b","r","e","a","t","h">> >>,
       \* duration: '7-14 days'
       duration  |-> <<"7","-","1","4"," ","d","a","y","s">>,
       symptoms  |-> <<
            <<"f","e","v","e","r">>,
            <<"c","o","u","g","h">>,
            <<"s","h","o","r","t","n","e","s","s"," ","o","f"," ","b","r","e","a","t","h">>,
            <<"f","a","t","i","g","u","e">>,
            <<"l","o","s","s"," ","o","f"," ","t","a","s","t","e"," ","o","r"," ","s","m","e",
                "l","l">> >>,
       \* alert: 'Isolate immediately. Monitor oxygen levels. Seek medical attention if breathing difficulties occur.'
       alert     |-> <<"I","s","o","l","a","t","e"," ","i","m","m","e","d","i","a","t","e","l",
            "y","."," ","M","o","n","i","t","o","r"," ","o","x","y","g","e","n"," ","l","e","v","e","l",
            "s","."," ","S","e","e","k"," ","m","e","d","i","c","a","l"," ","a","t","t","e","n","t","i",
            "o","n"," ","i","f"," ","b","r","e","a","t","h","i","n","g"," ","d","i","f","f","i","c","u",
            "l","t","i","e","s"," ","o","c","c","u","r",".">>,
       severity  |-> "high" ]
  >>


\* ---- fever_diseases.py: the f-string pieces of get_disease_recommendations
\* 'Likely condition: '
LikelyConditionPrefix == <<"L","i","k","e","l","y"," ","c","o","n","d","i","t","i","o","n",":",
    " ">>
\* 'Typical duration: '
TypicalDurationPrefix == <<"T","y","p","i","c","a","l"," ","d","u","r","a","t","i","o","n",":",
    " ">>
\* 'Alert: '
AlertPrefix == <<"A","l","e","r","t",":"," ">>
\* '⚠️ Seek medical attention promptly'
SeekMedicalAttention == <<"WARNING_SIGN","VS16"," ","S","e","e","k"," ","m","e","d","i","c","a",
    "l"," ","a","t","t","e","n","t","i","o","n"," ","p","r","o","m","p","t","l","y">>
\* 'Monitor symptoms closely'
MonitorClosely == <<"M","o","n","i","t","o","r"," ","s","y","m","p","t","o","m","s"," ","c","l",
    "o","s","e","l","y">>
\* 'Continue supportive care at home'
ContinueSupportiveCare == <<"C","o","n","t","i","n","u","e"," ","s","u","p","p","o","r","t","i",
    "v","e"," ","c","a","r","e"," ","a","t"," ","h","o","m","e">>

\* ---- main.py: the string literals of triage
\* 'EMERGENCY SYMPTOMS DETECTED: '
EmergencyPrefix == <<"E","M","E","R","G","E","N","C","Y"," ","S","Y","M","P","T","O","M","S",
    " ","D","E","T","E","C","T","E","D",":"," ">>
\* '\n\nSelected symptoms: '
SelectedSymptomsInfix == <<"LF","LF","S","e","l","e","c","t","e","d"," ","s","y","m","p","t",
    "o","m","s",":"," ">>
\* ', '
CommaSpace == <<","," ">>
\* 'Emergency symptoms selected via symptom selector'
SelectorRedFlag == <<"E","m","e","r","g","e","n","c","y"," ","s","y","m","p","t","o","m","s",
    " ","s","e","l","e","c","t","e","d"," ","v","i","a"," ","s","y","m","p","t","o","m"," ","s",
    "e","l","e","c","t","o","r">>
\* 'Red flag symptom detected: '
RedFlagSummaryPrefix == <<"R","e","d"," ","f","l","a","g"," ","s","y","m","p","t","o","m"," ",
    "d","e","t","e","c","t","e","d",":"," ">>
\* 'Call emergency services immediately'
CallEmergencyServices == <<"C","a","l","l"," ","e","m","e","r","g","e","n","c","y"," ","s","e",
    "r","v","i","c","e","s"," ","i","m","m","e","d","i","a","t","e","l","y">>
\* 'Go to the nearest emergency room'
GoToEmergencyRoom == <<"G","o"," ","t","o"," ","t","h","e"," ","n","e","a","r","e","s","t"," ",
    "e","m","e","r","g","e","n","c","y"," ","r","o","o","m">>
\* 'Do not delay seeking medical attention'
DoNotDelay == <<"D","o"," ","n","o","t"," ","d","e","l","a","y"," ","s","e","e","k","i","n","g",
    " ","m","e","d","i","c","a","l"," ","a","t","t","e","n","t","i","o","n">>
\* ' (Possible '
PossiblePrefix == <<" ","(","P","o","s","s","i","b","l","e"," ">>
\* ' - '
DashInfix == <<" ","-"," ">>
\* '% confidence)'
ConfidenceSuffix == <<"%"," ","c","o","n","f","i","d","e","n","c","e",")">>
\* 'red flag symptom'
DefaultRedFlagSymptom == <<"r","e","d"," ","f","l","a","g"," ","s","y","m","p","t","o","m">>
\* '\n\n'
BlankLine == <<"LF","LF">>

\* ---- the emergency phrases the specification catalogues for check_red_flags
\* 'difficulty breathing'
DifficultyBreathing == <<"d","i","f","f","i","c","u","l","t","y"," ","b","r","e","a","t","h",
    "i","n","g">>
\* 'chest pain'
ChestPain == <<"c","h","e","s","t"," ","p","a","i","n">>
\* 'unconscious'
Unconscious == <<"u","n","c","o","n","s","c","i","o","u","s">>
\* 'seizure'
Seizure == <<"s","e","i","z","u","r","e">>
\* 'blue lips'
BlueLips == <<"b","l","u","e"," ","l","i","p","s">>

\* ---- request messages
\* 'I have a rash, joint pain, and pain behind my eyes, temperature 104°F'
MsgDengueScenario == <<"I"," ","h","a","v","e"," ","a"," ","r","a","s","h",","," ","j","o","i",
    "n","t"," ","p","a","i","n",","," ","a","n","d"," ","p","a","i","n"," ","b","e","h","i","n",
    "d"," ","m","y"," ","e","y","e","s",","," ","t","e","m","p","e","r","a","t","u","r","e"," ",
    "1","0","4","DEGREE","F">>
\* "I'm having difficulty breathing"
MsgBreathing == <<"I","'","m"," ","h","a","v","i","n","g"," ","d","i","f","f","i","c","u","l",
    "t","y"," ","b","r","e","a","t","h","i","n","g">>
\* 'mild cold and sore throat for 2 days'
MsgCold == <<"m","i","l","d"," ","c","o","l","d"," ","a","n","d"," ","s","o","r","e"," ","t",
    "h","r","o","a","t"," ","f","o","r"," ","2"," ","d","a","y","s">>
\* 'mild fever, body ache and cough'
MsgFlu == <<"m","i","l","d"," ","f","e","v","e","r",","," ","b","o","d","y"," ","a","c","h","e",
    " ","a","n","d"," ","c","o","u","g","h">>
\* 'High fever with severe headache and rash'
MsgHighFever == <<"H","i","g","h"," ","f","e","v","e","r"," ","w","i","t","h"," ","s","e","v",
    "e","r","e"," ","h","e","a","d","a","c","h","e"," ","a","n","d"," ","r","a","s","h">>
\* 'hello'
MsgHello == <<"h","e","l","l","o">>

\* ---- selectable symptoms of the structured input
\* 'cough'
SymCough == <<"c","o","u","g","h">>
\* 'body ache'
SymBodyAche == <<"b","o","d","y"," ","a","c","h","e">>
\* 'Chest pain'
SymChestPain == <<"C","h","e","s","t"," ","p","a","i","n">>

\* ---- phrases a symptom description is put together from
\* 'High fever'
FragHighFever == <<"H","i","g","h"," ","f","e","v","e","r">>
\* 'fatigue'
FragFatigue == <<"f","a","t","i","g","u","e">>
\* 'Chills'
FragChills == <<"C","h","i","l","l","s">>
\* 'rash'
FragRash == <<"r","a","s","h">>

\* ---- texts of the oracle and of earlier turns
\* 'Fever reported'
OracleSummary == <<"F","e","v","e","r"," ","r","e","p","o","r","t","e","d">>
\* 'Rest'
OracleStepRest == <<"R","e","s","t">>
\* 'Drink fluids'
OracleStepFluids == <<"D","r","i","n","k"," ","f","l","u","i","d","s">>
\* 'How long?'
OracleQuestion == <<"H","o","w"," ","l","o","n","g","?">>
\* 'I see.'
OracleReply == <<"I"," ","s","e","e",".">>
\* 'hi'
EarlierUserText == <<"h","i">>
\* 'Hello'
EarlierAssistantText == <<"H","e","l","l","o">>
\* 'EMERGENCY: '
EmergencyInstructions == <<"E","M","E","R","G","E","N","C","Y",":"," ">>

(***************************************************************************)
(* Python values.  Optional[T]: None is the empty tuple and a value v is   *)
(* the one-element tuple <<v>>.                                            *)
(***************************************************************************)
None == <<>>

Some(v) == <<v>>

\* Python truthiness of an Optional[str] or Optional[float]: None, "" and 0 are falsy
TruthyText(o) == o # None /\ o[1] # <<>>

TruthyNumber(o) == o # None /\ o[1] # 0

\* a or b, on Optional[str]
OrElse(a, b) == IF TruthyText(a) THEN a ELSE b

UpperCase == <<"A","B","C","D","E","F","G","H","I","J","K","L","M",
               "N","O","P","Q","R","S","T","U","V","W","X","Y","Z">>

LowerCase == <<"a","b","c","d","e","f","g","h","i","j","k","l","m",
               "n","o","p","q","r","s","t","u","v","w","x","y","z">>

\* the lower-case and the upper-case form of one character
LowerChar(c) ==
    IF \E k \in 1..26 : UpperCase[k] = c
    THEN LowerCase[CHOOSE k \in 1..26 : UpperCase[k] = c]
    ELSE c

UpperChar(c) ==
    IF \E k \in 1..26 : LowerCase[k] = c
    THEN UpperCase[CHOOSE k \in 1..26 : LowerCase[k] = c]
    ELSE c

\* str.lower() and str.upper(), character by character
RECURSIVE Lower(_)
Lower(s) ==
    IF s = <<>> THEN <<>>
    ELSE IF Len(s) = 1 THEN <<LowerChar(s[1])>>
    ELSE LET half == Len(s) \div 2
         IN  Lower(SubSeq(s, 1, half)) \o Lower(SubSeq(s, half + 1, Len(s)))

RECURSIVE Upper(_)
Upper(s) ==
    IF s = <<>> THEN <<>>
    ELSE IF Len(s) = 1 THEN <<UpperChar(s[1])>>
    ELSE LET half == Len(s) \div 2
         IN  Upper(SubSeq(s, 1, half)) \o Upper(SubSeq(s, half + 1, Len(s)))

\* the Python test  phrase in text
Contains(text, phrase) ==
    \E i \in 0..(Len(text) - Len(phrase)) :
        \A j \in 1..Len(phrase) : text[i + j] = phrase[j]

\* sep.join(items)
RECURSIVE Join(_, _)
Join(sep, items) ==
    IF items = <<>> THEN <<>>
    ELSE IF Len(items) = 1 THEN items[1]
    ELSE items[1] \o sep \o Join(sep, Tail(items))

Digit == <<"0","1","2","3","4","5","6","7","8","9">>

\* the decimal digits of a natural number, as format(n, ".0f") prints them
RECURSIVE Decimal(_)
Decimal(n) ==
    IF n < 10 THEN <<Digit[n + 1]>>
    ELSE Decimal(n \div 10) \o <<Digit[(n % 10) + 1]>>


(***************************************************************************)
(* fever_diseases.py.  A temperature is in tenths of a degree Fahrenheit   *)
(* and a confidence in hundredths.                                         *)
(***************************************************************************)
DengueBonusAbove == 1030

MalariaBonusAbove == 1000

MalariaBonusBelow == 1040

TyphoidBonusAbove == 1020

FallbackConfidence == 30

\* the indices of the phrases of a list that occur in the text
Matches(phrases, symptoms_lower) ==
    {i \in 1..Len(phrases) : Contains(symptoms_lower, phrases[i])}

TemperatureBonus(disease, temperature) ==
    IF ~TruthyNumber(temperature) THEN 0
    ELSE IF disease = dengue /\ temperature[1] > DengueBonusAbove THEN 1
    ELSE IF disease = malaria /\ MalariaBonusAbove < temperature[1]
                              /\ temperature[1] < MalariaBonusBelow THEN 1
    ELSE IF disease = typhoid /\ temperature[1] > TyphoidBonusAbove THEN 1
    ELSE 0

\* PatternScore with keywords weighted as symptoms are
PatternScore_EqualWeight(pattern, symptoms_lower, temperature) ==
    2 * Cardinality(Matches(pattern.keywords, symptoms_lower))
    + 2 * Cardinality(Matches(pattern.symptoms, symptoms_lower))
    + TemperatureBonus(pattern.name, temperature)

\* the score the loop body gives one pattern
PatternScore(pattern, symptoms_lower, temperature) ==
    Cardinality(Matches(pattern.keywords, symptoms_lower))
    + 2 * Cardinality(Matches(pattern.symptoms, symptoms_lower))
    + TemperatureBonus(pattern.name, temperature)

\* the scores of the patterns from the k-th on, in catalog order
RECURSIVE ScoresFrom(_, _, _)
ScoresFrom(k, symptoms_lower, temperature) ==
    IF k > Len(FEVER_PATTERNS) THEN <<>>
    ELSE <<PatternScore(FEVER_PATTERNS[k], symptoms_lower, temperature)>>
         \o ScoresFrom(k + 1, symptoms_lower, temperature)

\* the dict scores, as a sequence over the catalog: 0 where the dict has no key
Scores(symptoms, temperature) == ScoresFrom(1, Lower(symptoms), temperature)

\* ArgMax returning the last key of maximal score
ArgMax_Last(scores) ==
    CHOOSE k \in 1..Len(scores) :
        /\ \A j \in 1..Len(scores) : scores[j] <= scores[k]
        /\ \A j \in (k + 1)..Len(scores) : scores[j] < scores[k]

\* max(scores, key=...): the first key, in insertion order, of maximal score
ArgMax(scores) ==
    CHOOSE k \in 1..Len(scores) :
        /\ \A j \in 1..Len(scores) : scores[j] <= scores[k]
        /\ \A j \in 1..(k - 1) : scores[j] < scores[k]

PatternOf(disease_type) ==
    CHOOSE k \in 1..Len(FEVER_PATTERNS) : FEVER_PATTERNS[k].name = disease_type

\* Confidence without the cap of min(..., 1.0)
Confidence_Uncapped(max_score, total_possible) ==
    (200 * max_score + total_possible) \div (2 * total_possible)

\* round(min(max_score / total_possible, 1.0), 2), in hundredths
Confidence(max_score, total_possible) ==
    IF max_score >= total_possible THEN 100
    ELSE (200 * max_score + total_possible) \div (2 * total_possible)

identify_fever_type(symptoms, temperature) ==
    LET scores == Scores(symptoms, temperature)
    IN  IF \A k \in 1..Len(scores) : scores[k] = 0
        THEN [likely_type |-> viral,
              confidence  |-> FallbackConfidence,
              all_scores  |-> [k \in {} |-> 0]]
        ELSE LET k     == ArgMax(scores)
                 total == Len(FEVER_PATTERNS[k].keywords) + Len(FEVER_PATTERNS[k].symptoms)
             IN  [likely_type |-> FEVER_PATTERNS[k].name,
                  confidence  |-> Confidence(scores[k], total),
                  all_scores  |-> [j \in {i \in 1..Len(scores) : scores[i] > 0} |-> scores[j]]]

get_disease_recommendations(disease_type) ==
    IF \A k \in 1..Len(FEVER_PATTERNS) : FEVER_PATTERNS[k].name # disease_type
    THEN <<>>
    ELSE LET pattern == FEVER_PATTERNS[PatternOf(disease_type)]
         IN  << LikelyConditionPrefix \o Upper(disease_type),
                TypicalDurationPrefix \o pattern.duration,
                AlertPrefix \o pattern.alert,
                IF pattern.severity = "high" THEN SeekMedicalAttention
                ELSE IF pattern.severity = "medium" THEN MonitorClosely
                ELSE ContinueSupportiveCare >>


(***************************************************************************)
(* Collaborators whose code is not among the sources, from their contracts *)
(* in the specification.                                                   *)
(***************************************************************************)
\* section 4.1: the fixed, ordered list of emergency phrases
RED_FLAGS == <<DifficultyBreathing, ChestPain, Unconscious, Seizure, BlueLips>>

\* section 4.1: the first phrase of the list occurring in the text, whatever its case
check_red_flags(text) ==
    LET hits == Matches(RED_FLAGS, Lower(text))
    IN  IF hits = {} THEN None
        ELSE Some(RED_FLAGS[CHOOSE i \in hits : \A j \in hits : i <= j])

\* section 8: the fixed emergency instructions, naming the symptom
get_red_flag_response(red_flag) == EmergencyInstructions \o red_flag

\* section 3: the label set of TriageLevel
TriageLevels == {"emergency", "urgent", "routine", "follow_up"}

\* section 6: the judgments the oracle may give assess_triage
OracleJudgments ==
    {j \in [triage_level            : TriageLevels,
            summary                 : {OracleSummary},
            recommended_next_steps  : {<<OracleStepRest, OracleStepFluids>>},
            red_flag_detected       : BOOLEAN,
            red_flag_symptom        : {None, Some(Seizure)},
            next_question           : {None, Some(<<>>), Some(OracleQuestion)}] :
        ~j.red_flag_detected => j.red_flag_symptom = None}

\* sections 3 and 4.3: the TriageResult assess_triage makes of a judgment.  A red flag
\* of the oracle's own forces the level emergency, with escalation; without one the
\* level is the oracle's and escalate is as the implementation decides.
assess_triage(judgment, escalate) ==
    [triage_level            |-> IF judgment.red_flag_detected THEN "emergency"
                                 ELSE judgment.triage_level,
     escalate                |-> judgment.red_flag_detected \/ escalate,
     summary                 |-> judgment.summary,
     recommended_next_steps  |-> judgment.recommended_next_steps,
     red_flag_detected       |-> judgment.red_flag_detected,
     red_flag_symptom        |-> judgment.red_flag_symptom,
     next_question           |-> judgment.next_question]

\* section 6: the texts generate_response may return
GenerateOutputs == {OracleReply}


(***************************************************************************)
(* database.py.  The table conversations maps a session id to at most one  *)
(* row (session_id is the primary key); created_at and updated_at are not  *)
(* modelled.                                                               *)
(***************************************************************************)
Row(messages, triage_level, summary, red_flag) ==
    [messages          |-> messages,
     triage_level      |-> triage_level,
     summary           |-> summary,
     red_flag_detected |-> red_flag]

\* get_conversation, and the query of save_conversation: .first()
get_conversation(table, session_id) == table[session_id]

\* UpdateRow adding the messages to those the row holds
UpdateRow_Append(current, loaded, new) ==
    [c \in DOMAIN new |->
        IF c = "messages" THEN current[c] \o new[c]
        ELSE IF new[c] # loaded[c] THEN new[c] ELSE current[c]]

\* lines 70-73, as db.commit() flushes them: the UPDATE of a loaded row sets the
\* columns whose assigned value differs from the value loaded, and leaves the others as
\* the table holds them.
UpdateRow(current, loaded, new) ==
    [c \in DOMAIN new |-> IF new[c] # loaded[c] THEN new[c] ELSE current[c]]

\* save_conversation from after its query to db.commit(): the assignments to the row
\* loaded, or the INSERT of a new one, which the primary key refuses when the table
\* holds a row for the session by then.
CommitSave(table, session_id, loaded, new) ==
    IF loaded # None
    THEN [table |-> [table EXCEPT ![session_id] = Some(UpdateRow(table[session_id][1], loaded[1], new))],
          error |-> FALSE]
    ELSE IF table[session_id] # None
    THEN [table |-> table, error |-> TRUE]
    ELSE [table |-> [table EXCEPT ![session_id] = Some(new)], error |-> FALSE]

\* save_conversation, run without another writer in between
save_conversation(table, session_id, messages, triage_level, summary, red_flag) ==
    CommitSave(table, session_id, get_conversation(table, session_id),
               Row(messages, triage_level, summary, red_flag)).table


(***************************************************************************)
(* main.py: the pure parts of triage.                                      *)
(***************************************************************************)
ConfidenceThreshold == 30

\* lines 82-91: the message, enhanced with the structured symptom input
EnhancedMessage(req) ==
    IF req.symptom_data = None THEN req.message
    ELSE LET symptom_data == req.symptom_data[1]
             marked == IF symptom_data.emergency_detected
                       THEN EmergencyPrefix \o req.message
                       ELSE req.message
         IN  IF symptom_data.symptoms # <<>>
             THEN req.message \o SelectedSymptomsInfix \o Join(CommaSpace, symptom_data.symptoms)
             ELSE marked

\* RedFlagOf without lines 97-99: the structured input is not consulted
RedFlagOf_TextOnly(req) ==
    OrElse(check_red_flags(req.message), check_red_flags(EnhancedMessage(req)))

\* RedFlagOf with line 98 testing only that structured input was sent
RedFlagOf_AnySelection(req) ==
    LET textual == OrElse(check_red_flags(req.message), check_red_flags(EnhancedMessage(req)))
    IN  IF req.symptom_data # None
        THEN OrElse(textual, Some(SelectorRedFlag))
        ELSE textual

\* lines 95-99: the red flag of the request, None when there is none
RedFlagOf(req) ==
    LET textual == OrElse(check_red_flags(req.message), check_red_flags(EnhancedMessage(req)))
    IN  IF req.symptom_data # None /\ req.symptom_data[1].emergency_detected
        THEN OrElse(textual, Some(SelectorRedFlag))
        ELSE textual

\* lines 102-129 and 212-239: the history as stored, on role and content (the
\* timestamps of the messages are not modelled)
ConversationDicts(conversation_history) ==
    [i \in 1..Len(conversation_history) |->
        [role    |-> conversation_history[i].role,
         content |-> conversation_history[i].content]]

\* lines 131-134 and 241-244: the transcript a request stores
Transcript(req, reply) ==
    ConversationDicts(req.conversation_history)
    \o << [role |-> "user", content |-> req.message],
          [role |-> "assistant", content |-> reply] >>

\* RedFlagTriageResult with escalate left at False
RedFlagTriageResult_NoEscalate(flag) ==
    [triage_level            |-> "emergency",
     escalate                |-> FALSE,
     summary                 |-> RedFlagSummaryPrefix \o flag,
     recommended_next_steps  |-> <<CallEmergencyServices, GoToEmergencyRoom, DoNotDelay>>,
     red_flag_detected       |-> TRUE,
     red_flag_symptom        |-> Some(flag),
     next_question           |-> None]

\* lines 146-157: the TriageResult of the short circuit; next_question is not given
\* and is None, the default of the optional field
RedFlagTriageResult(flag) ==
    [triage_level            |-> "emergency",
     escalate                |-> TRUE,
     summary                 |-> RedFlagSummaryPrefix \o flag,
     recommended_next_steps  |-> <<CallEmergencyServices, GoToEmergencyRoom, DoNotDelay>>,
     red_flag_detected       |-> TRUE,
     red_flag_symptom        |-> Some(flag),
     next_question           |-> None]

\* line 188: the message the oracle and the scorer are given
TriageMessage(req) ==
    IF req.symptom_data # None THEN EnhancedMessage(req) ELSE req.message

\* Confident with >= for >
Confident_AtLeast(analysis) == analysis.confidence >= ConfidenceThreshold

\* line 193: whether the analysis is confident enough to be merged
Confident(analysis) == analysis.confidence > ConfidenceThreshold

\* MergeDisease setting the level by the severity of the disease as well
MergeDisease_LevelBySeverity(result, analysis) ==
    IF Confident(analysis) /\ get_disease_recommendations(analysis.likely_type) # <<>>
    THEN [result EXCEPT
            !.recommended_next_steps =
                get_disease_recommendations(analysis.likely_type) \o @,
            !.summary = @ \o PossiblePrefix \o Upper(analysis.likely_type) \o DashInfix
                          \o Decimal(analysis.confidence) \o ConfidenceSuffix,
            !.triage_level =
                IF FEVER_PATTERNS[PatternOf(analysis.likely_type)].severity = "high"
                THEN "urgent" ELSE "follow_up"]
    ELSE result

\* lines 193-198: the disease recommendations put before the oracle's, and the
\* summary annotated
MergeDisease(result, analysis) ==
    IF Confident(analysis) /\ get_disease_recommendations(analysis.likely_type) # <<>>
    THEN [result EXCEPT
            !.recommended_next_steps =
                get_disease_recommendations(analysis.likely_type) \o @,
            !.summary = @ \o PossiblePrefix \o Upper(analysis.likely_type) \o DashInfix
                          \o Decimal(analysis.confidence) \o ConfidenceSuffix]
    ELSE result

\* CallsGenerate testing the level as well
CallsGenerate_NotEmergency(result) ==
    result.triage_level # "emergency" /\ ~result.red_flag_detected

\* line 201: the second oracle call is made when the result flags no red flag
CallsGenerate(result) == ~result.red_flag_detected

\* lines 202 and 206-208: the reply, given the text generate_response returned
ResponseMessage(result, generated) ==
    IF result.red_flag_detected
    THEN get_red_flag_response(OrElse(result.red_flag_symptom, Some(DefaultRedFlagSymptom))[1])
    ELSE IF TruthyText(result.next_question)
    THEN generated \o BlankLine \o result.next_question[1]
    ELSE generated

\* ConversationComplete without line 203
ConversationComplete_QuestionOnly(result) == result.next_question = None

\* lines 203 and 209
ConversationComplete(result) ==
    IF result.red_flag_detected THEN TRUE ELSE result.next_question = None

(***************************************************************************)
(* Requests.                                                               *)
(***************************************************************************)
MaxHistory == 2

SessionIds == {"s1", "s2"}

Messages ==
    {MsgDengueScenario, MsgBreathing, MsgCold, MsgFlu, MsgHighFever, MsgHello}

\* the earlier turns of a conversation: user and assistant in turn
EarlierTurn(i) ==
    IF i % 2 = 1 THEN [role |-> "user", content |-> EarlierUserText]
    ELSE [role |-> "assistant", content |-> EarlierAssistantText]

Histories == {[i \in 1..n |-> EarlierTurn(i)] : n \in 0..MaxHistory}

SymptomData ==
    { None,
      Some([symptoms |-> <<>>, emergency_detected |-> TRUE]),
      Some([symptoms |-> <<SymChestPain>>, emergency_detected |-> FALSE]),
      Some([symptoms |-> <<SymCough, SymBodyAche>>, emergency_detected |-> FALSE]),
      Some([symptoms |-> <<SymCough>>, emergency_detected |-> TRUE]) }

Requests ==
    [session_id           : SessionIds,
     message              : Messages,
     conversation_history : Histories,
     symptom_data         : SymptomData]


\* What the table may hold when a request arrives: nothing, or for session s1 the row
\* an earlier turn stored, by the short circuit or after the oracle's assessment.
EarlierShortCircuitRow ==
    Row(<< [role |-> "user", content |-> MsgBreathing],
           [role |-> "assistant", content |-> get_red_flag_response(DifficultyBreathing)] >>,
        Some("emergency"), None, Some(DifficultyBreathing))

EarlierAssessedRow ==
    Row(<< [role |-> "user", content |-> EarlierUserText],
           [role |-> "assistant", content |-> EarlierAssistantText] >>,
        Some("follow_up"), Some(OracleSummary), None)

EmptyTable == [s \in SessionIds |-> None]

EarlierTables ==
    { EmptyTable,
      [EmptyTable EXCEPT !["s1"] = Some(EarlierShortCircuitRow)],
      [EmptyTable EXCEPT !["s1"] = Some(EarlierAssessedRow)] }

(***************************************************************************)
(* State.                                                                  *)
(*   db               the table conversations                              *)
(*   pc               where the request in hand stands in triage           *)
(*   request          the ConversationRequest in hand                      *)
(*   red_flag, triage_result, disease_analysis, response_message           *)
(*                    the locals of triage, None until assigned            *)
(*   response         the ConversationResponse returned, None until then   *)
(*   judgment         the oracle's judgment within assess_triage           *)
(*   assessed         triage_result as assess_triage returned it           *)
(*   calls            the collaborators called for the request, in order   *)
(*   failed_at        the call whose exception ended the request           *)
(*   db_before        db when the request arrived                          *)
(*   wpc, wargs, wloaded, committed                                        *)
(*                    the callers of save_conversation of SpecSave         *)
(*   sc_symptoms, sc_temperature, sc_result                                *)
(*                    the arguments and the result of identify_fever_type  *)
(*                    of SpecScorer                                        *)
(*   saves            the calls of save_conversation of SpecUpsert, each   *)
(*                    with the table before and after it                   *)
(***************************************************************************)
VARIABLES db, pc, request, red_flag, triage_result, disease_analysis, response_message,
          response, judgment, assessed, calls, failed_at, db_before,
          wpc, wargs, wloaded, committed, sc_symptoms, sc_temperature, sc_result, saves

locals == <<red_flag, triage_result, disease_analysis, response_message, judgment, assessed>>

writers == <<wpc, wargs, wloaded, committed>>

func_vars == <<sc_symptoms, sc_temperature, sc_result, saves>>

vars == <<db, pc, request, red_flag, triage_result, disease_analysis, response_message,
          response, judgment, assessed, calls, failed_at, db_before, wpc, wargs, wloaded, committed,
          sc_symptoms, sc_temperature, sc_result, saves>>

MaxWriters == 2

Writers == 1..MaxWriters

NoWriters ==
    /\ wpc = [w \in Writers |-> "idle"]
    /\ wargs = [w \in Writers |-> None]
    /\ wloaded = [w \in Writers |-> None]
    /\ committed = <<>>

NoScorer ==
    /\ sc_symptoms = <<>>
    /\ sc_temperature = None
    /\ sc_result = None

NoSaves == saves = <<>>

Init ==
    /\ db \in EarlierTables
    /\ pc = "idle"
    /\ request = None
    /\ red_flag = None
    /\ triage_result = None
    /\ disease_analysis = None
    /\ response_message = None
    /\ response = None
    /\ judgment = None
    /\ assessed = None
    /\ calls = <<>>
    /\ failed_at = None
    /\ db_before = db
    /\ NoWriters
    /\ NoScorer
    /\ NoSaves

\* RaiseHTTPException answering with a made-up result instead of raising
RaiseHTTPException_Fallback(call) ==
    /\ pc' = "returned"
    /\ failed_at' = Some(call)
    /\ response' = Some([session_id            |-> request[1].session_id,
                         message               |-> <<>>,
                         triage_result         |-> assess_triage(
                             [triage_level            |-> "routine",
                              summary                 |-> <<>>,
                              recommended_next_steps  |-> <<>>,
                              red_flag_detected       |-> FALSE,
                              red_flag_symptom        |-> None,
                              next_question           |-> None], FALSE),
                         conversation_complete |-> TRUE])
    /\ db' = db

\* lines 261-270: any exception of the body ends the request with HTTP 500
RaiseHTTPException(call) ==
    /\ pc' = "failed"
    /\ failed_at' = Some(call)
    /\ response' = None
    /\ db' = db

\* the request arrives
Receive ==
    /\ pc = "idle"
    /\ \E req \in Requests : request' = Some(req)
    /\ pc' = "get_llm_service"
    /\ db_before' = db
    /\ UNCHANGED <<db, locals, response, calls, failed_at, writers, func_vars>>

\* lines 78-79: the oracle of the request's provider is obtained, or the factory raises
GetLlmService ==
    /\ pc = "get_llm_service"
    /\ calls' = Append(calls, "get_llm_service")
    /\ \/ /\ pc' = "check_red_flags"
          /\ UNCHANGED <<db, response, failed_at>>
       \/ RaiseHTTPException("get_llm_service")
    /\ UNCHANGED <<request, locals, db_before, writers, func_vars>>

\* lines 82-100: the message is enhanced and checked for red flags
CheckRedFlags ==
    /\ pc = "check_red_flags"
    /\ calls' = Append(calls, "check_red_flags")
    /\ red_flag' = RedFlagOf(request[1])
    /\ pc' = IF TruthyText(red_flag') THEN "short_circuit" ELSE "assess_triage"
    /\ UNCHANGED <<db, request, triage_result, disease_analysis, response_message,
                   response, judgment, assessed, failed_at, db_before, writers, func_vars>>

\* lines 100-159: the short circuit stores the transcript and returns the emergency
ShortCircuit ==
    /\ pc = "short_circuit"
    /\ calls' = Append(calls, "save_conversation")
    /\ \/ /\ db' = save_conversation(db, request[1].session_id,
                       Transcript(request[1], get_red_flag_response(red_flag[1])),
                       Some("emergency"), None, red_flag)
          /\ response' = Some([session_id            |-> request[1].session_id,
                               message               |-> get_red_flag_response(red_flag[1]),
                               triage_result         |-> RedFlagTriageResult(red_flag[1]),
                               conversation_complete |-> TRUE])
          /\ pc' = "returned"
          /\ UNCHANGED failed_at
       \/ RaiseHTTPException("save_conversation")
    /\ UNCHANGED <<request, locals, db_before, writers, func_vars>>

\* lines 161-189: the first oracle call
AssessTriage ==
    /\ pc = "assess_triage"
    /\ calls' = Append(calls, "assess_triage")
    /\ \/ /\ \E j \in OracleJudgments, escalate \in BOOLEAN :
                /\ judgment' = Some(j)
                /\ triage_result' = Some(assess_triage(j, escalate))
                /\ assessed' = Some(assess_triage(j, escalate))
          /\ pc' = "identify_fever_type"
          /\ UNCHANGED <<db, response, failed_at>>
       \/ /\ RaiseHTTPException("assess_triage")
          /\ UNCHANGED <<triage_result, assessed, judgment>>
    /\ UNCHANGED <<request, red_flag, disease_analysis, response_message, db_before, writers, func_vars>>

\* lines 191-198: the disease scorer annotates the result
DiseaseDetection ==
    /\ pc = "identify_fever_type"
    /\ LET analysis == identify_fever_type(TriageMessage(request[1]), None)
       IN  /\ disease_analysis' = Some(analysis)
           /\ triage_result' = Some(MergeDisease(triage_result[1], analysis))
    /\ pc' = "respond"
    /\ UNCHANGED <<db, request, red_flag, response_message, response, judgment,
                   assessed, calls, failed_at, db_before, writers, func_vars>>

\* lines 200-209: the reply is composed, with the second oracle call when no red flag
Respond ==
    /\ pc = "respond"
    /\ IF CallsGenerate(triage_result[1])
       THEN /\ calls' = Append(calls, "generate_response")
            /\ \/ /\ \E generated \in GenerateOutputs :
                        response_message' = Some(ResponseMessage(triage_result[1], generated))
                  /\ pc' = "save_conversation"
                  /\ UNCHANGED <<db, response, failed_at>>
               \/ /\ RaiseHTTPException("generate_response")
                  /\ UNCHANGED response_message
       ELSE /\ response_message' = Some(ResponseMessage(triage_result[1], <<>>))
            /\ pc' = "save_conversation"
            /\ UNCHANGED <<db, response, failed_at, calls>>
    /\ UNCHANGED <<request, red_flag, triage_result, disease_analysis, judgment, assessed,
                   db_before, writers, func_vars>>

\* lines 211-259: the transcript is stored and the response returned
Persist ==
    /\ pc = "save_conversation"
    /\ calls' = Append(calls, "save_conversation")
    /\ \/ /\ db' = save_conversation(db, request[1].session_id,
                       Transcript(request[1], response_message[1]),
                       Some(triage_result[1].triage_level),
                       Some(triage_result[1].summary),
                       triage_result[1].red_flag_symptom)
          /\ response' = Some([session_id            |-> request[1].session_id,
                               message               |-> response_message[1],
                               triage_result         |-> triage_result[1],
                               conversation_complete |-> ConversationComplete(triage_result[1])])
          /\ pc' = "returned"
          /\ UNCHANGED failed_at
       \/ RaiseHTTPException("save_conversation")
    /\ UNCHANGED <<request, locals, db_before, writers, func_vars>>

Next ==
    \/ Receive
    \/ GetLlmService
    \/ CheckRedFlags
    \/ ShortCircuit
    \/ AssessTriage
    \/ DiseaseDetection
    \/ Respond
    \/ Persist

Spec == Init /\ [][Next]_vars


(***************************************************************************)
(* database.py: callers of save_conversation, each in a database session   *)
(* of its own (get_db), whose steps may interleave.                        *)
(***************************************************************************)
\* the rows the callers store: a red-flag turn and an assessed turn
SaveRows ==
    { Row(<< EarlierTurn(1), EarlierTurn(2),
             [role |-> "user", content |-> MsgBreathing],
             [role |-> "assistant", content |-> get_red_flag_response(DifficultyBreathing)] >>,
          Some("emergency"), None, Some(DifficultyBreathing)),
      Row(<< [role |-> "user", content |-> MsgHello],
             [role |-> "assistant", content |-> OracleReply] >>,
          Some("routine"), Some(OracleSummary), None) }

InitSave ==
    /\ db \in EarlierTables
    /\ pc = "idle"
    /\ request = None
    /\ red_flag = None
    /\ triage_result = None
    /\ disease_analysis = None
    /\ response_message = None
    /\ response = None
    /\ judgment = None
    /\ assessed = None
    /\ calls = <<>>
    /\ failed_at = None
    /\ db_before = db
    /\ NoWriters
    /\ NoScorer
    /\ NoSaves

triage_vars == <<pc, request, red_flag, triage_result, disease_analysis, response_message,
                 response, judgment, assessed, calls, failed_at, db_before>>

\* lines 64-67: the call, up to its query
BeginSave(w) ==
    /\ wpc[w] = "idle"
    /\ \E session_id \in SessionIds, row \in SaveRows :
          /\ wargs' = [wargs EXCEPT ![w] = Some([session_id |-> session_id, row |-> row])]
          /\ wloaded' = [wloaded EXCEPT ![w] = get_conversation(db, session_id)]
    /\ wpc' = [wpc EXCEPT ![w] = "loaded"]
    /\ UNCHANGED <<db, committed, triage_vars, func_vars>>

\* lines 69-86: the row is assigned or added, and the transaction committed
Commit(w) ==
    /\ wpc[w] = "loaded"
    /\ LET done == CommitSave(db, wargs[w][1].session_id, wloaded[w], wargs[w][1].row)
       IN  /\ db' = done.table
           /\ wpc' = [wpc EXCEPT ![w] = IF done.error THEN "error" ELSE "committed"]
           /\ committed' = IF done.error THEN committed ELSE Append(committed, w)
    /\ UNCHANGED <<wargs, wloaded, triage_vars, func_vars>>

NextSave == \E w \in Writers : BeginSave(w) \/ Commit(w)

SpecSave == InitSave /\ [][NextSave]_vars


(***************************************************************************)
(* fever_diseases.py: identify_fever_type called on a symptom description  *)
(* and an optional temperature.                                            *)
(***************************************************************************)
Fragments == <<FragHighFever, SymBodyAche, FragFatigue, SymCough, FragChills, FragRash>>

\* the fragments chosen, from the k-th on, in their order
RECURSIVE SelectFrom(_, _)
SelectFrom(k, chosen) ==
    IF k > Len(Fragments) THEN <<>>
    ELSE (IF k \in chosen THEN <<Fragments[k]>> ELSE <<>>) \o SelectFrom(k + 1, chosen)

\* the descriptions: any choice of fragments, comma separated
ScorerTexts == {Join(CommaSpace, SelectFrom(1, chosen)) : chosen \in SUBSET (1..Len(Fragments))}

\* no reading, 0.0, and readings at and around the thresholds of lines 84-89
Temperatures ==
    {None, Some(0), Some(MalariaBonusAbove), Some(MalariaBonusAbove + 10),
     Some(TyphoidBonusAbove + 5), Some(DengueBonusAbove), Some(DengueBonusAbove + 5),
     Some(MalariaBonusBelow)}

InitScorer ==
    /\ db = EmptyTable
    /\ pc = "idle"
    /\ request = None
    /\ red_flag = None
    /\ triage_result = None
    /\ disease_analysis = None
    /\ response_message = None
    /\ response = None
    /\ judgment = None
    /\ assessed = None
    /\ calls = <<>>
    /\ failed_at = None
    /\ db_before = db
    /\ NoWriters
    /\ NoSaves
    /\ sc_symptoms \in ScorerTexts
    /\ sc_temperature \in Temperatures
    /\ sc_result = None

\* lines 51-116: the call
Identify ==
    /\ sc_result = None
    /\ sc_result' = Some(identify_fever_type(sc_symptoms, sc_temperature))
    /\ UNCHANGED <<db, triage_vars, writers, sc_symptoms, sc_temperature, saves>>

NextScorer == Identify

SpecScorer == InitScorer /\ [][NextScorer]_vars

(***************************************************************************)
(* database.py: save_conversation called again and again, each call run to *)
(* its commit before the next begins.                                      *)
(***************************************************************************)
MaxSaves == 3

\* lines 64-87: one call
Save ==
    /\ Len(saves) < MaxSaves
    /\ \E session_id \in SessionIds, row \in SaveRows :
          LET after == save_conversation(db, session_id, row.messages, row.triage_level,
                                         row.summary, row.red_flag_detected)
          IN  /\ db' = after
              /\ saves' = Append(saves, [session_id |-> session_id, row |-> row,
                                         before |-> db, after |-> after])
    /\ UNCHANGED <<triage_vars, writers, sc_symptoms, sc_temperature, sc_result>>

InitUpsert ==
    /\ db \in EarlierTables
    /\ pc = "idle"
    /\ request = None
    /\ red_flag = None
    /\ triage_result = None
    /\ disease_analysis = None
    /\ response_message = None
    /\ response = None
    /\ judgment = None
    /\ assessed = None
    /\ calls = <<>>
    /\ failed_at = None
    /\ db_before = db
    /\ NoWriters
    /\ NoScorer
    /\ NoSaves

NextUpsert == Save

SpecUpsert == InitUpsert /\ [][NextUpsert]_vars

(***************************************************************************)
(* Properties.                                                             *)
(***************************************************************************)
Returned == pc = "returned"

\* the ConversationRequest in hand, the TriageResult returned and the row stored for it
Req == request[1]

Result == response[1].triage_result

Stored == db[Req.session_id]

EmergencyFlagged(req) ==
    req.symptom_data # None /\ req.symptom_data[1].emergency_detected

\* the three conditions of the short circuit, each as the request states it
RedFlagCase(req) ==
    \/ check_red_flags(req.message) # None
    \/ check_red_flags(EnhancedMessage(req)) # None
    \/ EmergencyFlagged(req)

Invoked(call) == \E i \in 1..Len(calls) : calls[i] = call

FixedEmergencySteps == <<CallEmergencyServices, GoToEmergencyRoom, DoNotDelay>>

\* C1: a request whose raw or enhanced message matches a red flag, or whose structured
\* input has emergency_detected, is answered with triage_level emergency, escalate,
\* red_flag_detected, the three fixed steps and conversation_complete, and the row stored
\* for its session has triage_level emergency.
C1_RedFlagGivesEmergency ==
    (Returned /\ RedFlagCase(Req)) =>
        /\ Result.triage_level = "emergency"
        /\ Result.escalate
        /\ Result.red_flag_detected
        /\ Result.recommended_next_steps = FixedEmergencySteps
        /\ response[1].conversation_complete
        /\ Stored # None
        /\ Stored[1].triage_level = Some("emergency")

\* C1 witness: emergency_detected with a message holding no emergency phrase
C1_Witness ==
    /\ Returned
    /\ Req.message = MsgHello
    /\ Req.symptom_data = Some([symptoms |-> <<>>, emergency_detected |-> TRUE])
    /\ check_red_flags(Req.message) = None
    /\ Result.triage_level = "emergency"
    /\ Stored[1].triage_level = Some("emergency")

C3_NoOracleDependency ==
    /\ (Returned /\ TruthyText(red_flag)) =>
          ~Invoked("assess_triage") /\ ~Invoked("generate_response")
    /\ (pc = "failed" /\ RedFlagCase(Req)) => Invoked("check_red_flags")
    /\ (pc = "failed" /\ RedFlagCase(Req)) => failed_at = Some("save_conversation")

\* C4 as claimed: no emergency phrase in the message text and no emergency_detected, and
\* the short circuit does not fire
C4_Original ==
    (pc # "idle" /\ check_red_flags(Req.message) = None /\ ~EmergencyFlagged(Req)) =>
        /\ pc # "short_circuit"
        /\ ~TruthyText(red_flag)

\* C4, amended: when neither the message text nor the enhanced message (the text with
\* the selected symptoms appended) holds an emergency phrase, and emergency_detected is
\* not set, the short circuit does not fire and the request goes on to assess_triage.
C4_NoRedFlagNoShortCircuit ==
    (pc # "idle" /\ check_red_flags(Req.message) = None
                 /\ check_red_flags(EnhancedMessage(Req)) = None
                 /\ ~EmergencyFlagged(Req)) =>
        /\ pc # "short_circuit"
        /\ ~TruthyText(red_flag)
        /\ Invoked("check_red_flags") =>
              pc \in {"assess_triage", "identify_fever_type", "respond",
                      "save_conversation", "returned", "failed"}
        /\ Returned => Invoked("assess_triage")

\* C4 witness: symptoms are appended to a message and the request reaches assess_triage
C4_Witness ==
    /\ pc = "assess_triage"
    /\ Req.symptom_data = Some([symptoms |-> <<SymCough, SymBodyAche>>,
                                emergency_detected |-> FALSE])
    /\ EnhancedMessage(Req) # Req.message
    /\ red_flag = None

\* C5: after the oracle's assessment the recommendations of the scorer's likely_type are
\* in the steps returned exactly when its confidence is above 0.3: then they come first
\* and the oracle's steps follow in their order; otherwise the oracle's steps are
\* returned as they were.
C5_MergeAboveThreshold ==
    (Returned /\ assessed # None) =>
        LET analysis == disease_analysis[1]
            advice   == get_disease_recommendations(analysis.likely_type)
        IN  /\ advice # <<>>
            /\ analysis.confidence > 30 =>
                  Result.recommended_next_steps = advice \o assessed[1].recommended_next_steps
            /\ analysis.confidence <= 30 =>
                  Result.recommended_next_steps = assessed[1].recommended_next_steps
            /\ (\E i \in 1..Len(Result.recommended_next_steps) :
                    Result.recommended_next_steps[i] = advice[1])
                  <=> analysis.confidence > 30

\* C5 witness: a merge, the flu advice first and the oracle's two steps after it
C5_Witness ==
    /\ Returned
    /\ assessed # None
    /\ disease_analysis[1].likely_type = flu
    /\ disease_analysis[1].confidence = 80
    /\ Len(Result.recommended_next_steps) = 6
    /\ Result.recommended_next_steps[5] = OracleStepRest

DengueAlertStep == AlertPrefix \o FEVER_PATTERNS[1].alert

Among(step, steps) == \E i \in 1..Len(steps) : steps[i] = step

DengueScenario ==
    /\ Returned
    /\ Req.message = MsgDengueScenario
    /\ Req.symptom_data = None

\* C6 as claimed: the dengue scenario gives dengue with confidence above 0.3, and the
\* steps returned hold the dengue alert and the step to seek medical attention
C6_Original ==
    DengueScenario =>
        /\ disease_analysis[1].likely_type = dengue
        /\ disease_analysis[1].confidence > 30
        /\ Among(DengueAlertStep, Result.recommended_next_steps)
        /\ Among(SeekMedicalAttention, Result.recommended_next_steps)

\* C6, amended: for the message of the dengue scenario the scorer selects dengue with
\* confidence 0.17 (a score of 2 out of 12), which is not above 0.3, and the steps
\* returned are the oracle's own, without the dengue alert and without the step to seek
\* medical attention.
C6_DengueBelowThreshold ==
    DengueScenario =>
        /\ disease_analysis[1].likely_type = dengue
        /\ disease_analysis[1].confidence = 17
        /\ disease_analysis[1].all_scores = (1 :> 2)
        /\ Result.recommended_next_steps = assessed[1].recommended_next_steps
        /\ ~Among(DengueAlertStep, Result.recommended_next_steps)
        /\ ~Among(SeekMedicalAttention, Result.recommended_next_steps)

\* C6 witness: the dengue scenario is answered
C6_Witness ==
    /\ DengueScenario
    /\ disease_analysis[1].likely_type = dengue
    /\ Result.recommended_next_steps = <<OracleStepRest, OracleStepFluids>>

\* the reply ends with a blank line and the question
EndsWithQuestion(reply, question) ==
    /\ Len(reply) >= Len(BlankLine) + Len(question)
    /\ SubSeq(reply, Len(reply) - Len(question) - Len(BlankLine) + 1, Len(reply))
          = BlankLine \o question

\* C7 as claimed: conversation_complete is true exactly when next_question is absent
C7_Original ==
    Returned => (response[1].conversation_complete <=> Result.next_question = None)

\* C7, amended: conversation_complete is true exactly when the result flags a red flag
\* or its next_question is None; without a red flag a non-empty next_question is
\* appended to the reply after a blank line, and the conversation is then not complete.
C7_CompleteUnlessQuestion ==
    Returned =>
        /\ response[1].conversation_complete
              <=> (Result.red_flag_detected \/ Result.next_question = None)
        /\ (~Result.red_flag_detected /\ TruthyText(Result.next_question)) =>
              /\ EndsWithQuestion(response[1].message, Result.next_question[1])
              /\ ~response[1].conversation_complete
        /\ (Result.red_flag_detected /\ TruthyText(Result.next_question)) =>
              ~EndsWithQuestion(response[1].message, Result.next_question[1])

\* C7 witness: the oracle flags a red flag and gives a next question, which is not asked
C7_Witness ==
    /\ Returned
    /\ assessed # None
    /\ Result.red_flag_detected
    /\ Result.next_question = Some(OracleQuestion)
    /\ response[1].conversation_complete
    /\ ~EndsWithQuestion(response[1].message, OracleQuestion)

\* C8: when assess_triage or generate_response fails, the request fails: no response is
\* returned, save_conversation is not called and the table is as the request found it.
C8_OracleFailureFailsRequest ==
    (failed_at = Some("assess_triage") \/ failed_at = Some("generate_response")) =>
        /\ pc = "failed"
        /\ response = None
        /\ ~Invoked("save_conversation")
        /\ db = db_before

\* C8 witness: generate_response fails for a session that has a row
C8_Witness ==
    /\ pc = "failed"
    /\ failed_at = Some("generate_response")
    /\ red_flag = None
    /\ db_before[Req.session_id] # None

\* every caller has finished without an error, and the row of the session is not the
\* row of the caller that committed last
MixedRow ==
    /\ \A w \in Writers : wpc[w] = "committed"
    /\ LET last == wargs[committed[Len(committed)]][1]
       IN  db[last.session_id] # Some(last.row)

\* C9: two interleaved calls of save_conversation for a session both complete without
\* an error, and the row of the session is then wholly that of the call that committed
\* last.
C9_LastWriteWins ==
    /\ \A w \in Writers : wpc[w] # "error"
    /\ committed # <<>> =>
          LET last == wargs[committed[Len(committed)]][1]
          IN  db[last.session_id] = Some(last.row)

CallOrder ==
    <<"get_llm_service", "check_red_flags", "assess_triage", "generate_response",
      "save_conversation">>

Position(call) == CHOOSE k \in 1..Len(CallOrder) : CallOrder[k] = call

InOrder == \A i, j \in 1..Len(calls) : i < j => Position(calls[i]) < Position(calls[j])

AfterRespond == pc \in {"save_conversation", "returned"} \/ failed_at = Some("generate_response")
                \/ (failed_at = Some("save_conversation") /\ assessed # None)

\* C10 as claimed: generate_response is called exactly when the level of the turn is not
\* emergency and no red flag was found
C10_Original ==
    (AfterRespond /\ assessed # None) =>
        (Invoked("generate_response")
            <=> (triage_result[1].triage_level # "emergency"
                 /\ ~triage_result[1].red_flag_detected))

\* C10, amended: the calls of a request come in the order red-flag check, assess_triage,
\* generate_response, save_conversation; generate_response is called only after
\* assess_triage has returned, and exactly when no red flag was found, by the check or
\* by the oracle, whatever the triage level.
C10_GenerateUnlessRedFlag ==
    /\ InOrder
    /\ Invoked("generate_response") => (assessed # None /\ ~TruthyText(red_flag))
    /\ (AfterRespond /\ assessed # None) =>
          (Invoked("generate_response") <=> ~triage_result[1].red_flag_detected)
    /\ (AfterRespond /\ assessed = None) => ~Invoked("generate_response")

\* C10 witness: the level is emergency without a red flag, and generate_response is called
C10_Witness ==
    /\ Returned
    /\ assessed # None
    /\ Result.triage_level = "emergency"
    /\ ~Result.red_flag_detected
    /\ Invoked("generate_response")
    /\ calls = <<"get_llm_service", "check_red_flags", "assess_triage", "generate_response",
                 "save_conversation">>


\* the result of the call of identify_fever_type
Analysis == sc_result[1]

\* the phrase occurs in the description, letter case apart
Occurs(phrase) == Contains(Lower(sc_symptoms), phrase)

\* how many phrases of the list occur, from the i-th on
RECURSIVE CountFrom(_, _)
CountFrom(i, phrases) ==
    IF i > Len(phrases) THEN 0
    ELSE (IF Occurs(phrases[i]) THEN 1 ELSE 0) + CountFrom(i + 1, phrases)

\* a reading is supplied and is above (over) the bound, in tenths of a degree
Above(bound) == sc_temperature # None /\ sc_temperature[1] > bound

Below(bound) == sc_temperature # None /\ sc_temperature[1] < bound

\* the bonus of the k-th pattern for the reading: dengue above 103, malaria strictly
\* between 100 and 104, typhoid above 102
StrictBonus(k) ==
    IF \/ FEVER_PATTERNS[k].name = dengue /\ Above(DengueBonusAbove)
       \/ FEVER_PATTERNS[k].name = malaria /\ Above(MalariaBonusAbove) /\ Below(MalariaBonusBelow)
       \/ FEVER_PATTERNS[k].name = typhoid /\ Above(TyphoidBonusAbove)
    THEN 1 ELSE 0

\* keywords once, symptom phrases twice, and the bonus
StrictScore(k) ==
    CountFrom(1, FEVER_PATTERNS[k].keywords) + 2 * CountFrom(1, FEVER_PATTERNS[k].symptoms)
    + StrictBonus(k)

Catalog == 1..Len(FEVER_PATTERNS)

TotalPossible(k) == Len(FEVER_PATTERNS[k].keywords) + Len(FEVER_PATTERNS[k].symptoms)

\* C11: identify_fever_type returns a confidence between 0 and 1 (0 and 100 hundredths);
\* a winning score at or over the number of keywords and symptoms of the disease gives
\* exactly 1; and when no pattern scores above zero the result is viral, 0.3 and an
\* empty score map.
C11_ConfidenceBounded ==
    sc_result # None =>
        /\ Analysis.confidence \in 0..100
        /\ \A k \in DOMAIN Analysis.all_scores :
              (FEVER_PATTERNS[k].name = Analysis.likely_type
               /\ Analysis.all_scores[k] >= TotalPossible(k)) => Analysis.confidence = 100
        /\ (\A k \in Catalog : StrictScore(k) = 0) =>
              /\ Analysis.likely_type = viral
              /\ Analysis.confidence = FallbackConfidence
              /\ DOMAIN Analysis.all_scores = {}

\* C11 witness: the winning score is over the number of keywords and symptoms, and the
\* confidence is 1
C11_Witness ==
    /\ sc_result # None
    /\ \E k \in DOMAIN Analysis.all_scores :
          /\ FEVER_PATTERNS[k].name = Analysis.likely_type
          /\ Analysis.all_scores[k] > TotalPossible(k)
    /\ Analysis.confidence = 100

\* nothing matches and no bonus applies: the fallback is returned
FallbackReturned ==
    /\ sc_result # None
    /\ \A k \in Catalog : StrictScore(k) = 0
    /\ Analysis.likely_type = viral

\* the bonus as the claim words it: malaria for a reading within 100 to 104, the ends
\* included
InclusiveBonus(k) ==
    IF \/ FEVER_PATTERNS[k].name = dengue /\ Above(DengueBonusAbove)
       \/ FEVER_PATTERNS[k].name = malaria /\ ~Below(MalariaBonusAbove) /\ ~Above(MalariaBonusBelow)
                                            /\ sc_temperature # None
       \/ FEVER_PATTERNS[k].name = typhoid /\ Above(TyphoidBonusAbove)
    THEN 1 ELSE 0

InclusiveScore(k) ==
    CountFrom(1, FEVER_PATTERNS[k].keywords) + 2 * CountFrom(1, FEVER_PATTERNS[k].symptoms)
    + InclusiveBonus(k)

\* the score the result reports for the k-th pattern: 0 when the map has no entry
ReportedScore(k) ==
    IF k \in DOMAIN Analysis.all_scores THEN Analysis.all_scores[k] ELSE 0

\* the k-th pattern has the greatest of the scores, and is the first of those that have
IsFirstMaximum(k, score(_)) ==
    /\ \A j \in Catalog : score(j) <= score(k)
    /\ \A j \in Catalog : j < k => score(j) < score(k)

\* C14 as claimed: each disease scores its keywords once, its symptom phrases twice and
\* the bonus (malaria: a reading within 100 to 104), and likely_type is the first
\* disease in catalog order of maximal score, for every text and reading
C14_Original ==
    sc_result # None =>
        /\ \A k \in Catalog : ReportedScore(k) = InclusiveScore(k)
        /\ IsFirstMaximum(PatternOf(Analysis.likely_type), InclusiveScore)

\* C14, amended: each disease scores its keywords once, its symptom phrases twice and
\* the bonus, which for malaria is for a reading strictly between 100 and 104; when
\* some disease scores above zero likely_type is the first disease in catalog order of
\* maximal score, and otherwise it is viral.
C14_ScoreAndSelection ==
    sc_result # None =>
        /\ \A k \in Catalog : ReportedScore(k) = StrictScore(k)
        /\ IF \E k \in Catalog : StrictScore(k) > 0
           THEN IsFirstMaximum(PatternOf(Analysis.likely_type), StrictScore)
           ELSE Analysis.likely_type = viral

\* C14 witness: a reading of 103 gives malaria its bonus and dengue none; dengue, flu
\* and covid tie on "High fever", and dengue, the first in the catalog, is returned
C14_Witness ==
    /\ sc_result # None
    /\ sc_symptoms = FragHighFever
    /\ sc_temperature = Some(MalariaBonusBelow - 10)
    /\ StrictScore(PatternOf(dengue)) = StrictScore(PatternOf(flu))
    /\ StrictScore(PatternOf(flu)) = StrictScore(PatternOf(covid))
    /\ Analysis.likely_type = dengue
    /\ ReportedScore(PatternOf(malaria)) = 1

\* a reading of exactly 104 gives malaria no bonus
NoBonusAtBound ==
    /\ sc_result # None
    /\ sc_temperature = Some(MalariaBonusBelow)
    /\ ReportedScore(PatternOf(malaria)) = 0

\* the i-th and the next call have identical arguments
SameArguments(i) ==
    /\ saves[i].session_id = saves[i + 1].session_id
    /\ saves[i].row = saves[i + 1].row

\* C12: after save_conversation(s, messages, level, summary, red_flag) the record
\* get_conversation(s) returns has that triage_level, that summary and those messages,
\* whether or not the session had a record before; and a second call with the same
\* arguments leaves the table as the first call left it.
C12_UpsertReadBack ==
    /\ \A i \in 1..Len(saves) :
          LET got == get_conversation(saves[i].after, saves[i].session_id)
          IN  /\ got # None
              /\ got[1].triage_level = saves[i].row.triage_level
              /\ got[1].summary = saves[i].row.summary
              /\ got[1].messages = saves[i].row.messages
              /\ Len(got[1].messages) = Len(saves[i].row.messages)
    /\ \A i \in 1..(Len(saves) - 1) : SameArguments(i) => saves[i + 1].after = saves[i].after
    /\ saves # <<>> => db = saves[Len(saves)].after

\* C12 witness: the session has no record, a call saves one, and the same call again
\* leaves the table as it was
C12_Witness ==
    /\ Len(saves) >= 2
    /\ saves[1].before[saves[1].session_id] = None
    /\ SameArguments(1)
    /\ db = saves[1].after
    /\ get_conversation(db, saves[1].session_id) = Some(saves[1].row)

\* a call overwrites a record of other content
OverwritesRecord ==
    /\ saves # <<>>
    /\ saves[1].before[saves[1].session_id] # None
    /\ saves[1].before[saves[1].session_id] # Some(saves[1].row)
    /\ get_conversation(db, saves[1].session_id) = Some(saves[1].row)

\* the fields the merge of the disease analysis leaves alone
KeptFields == {"triage_level", "escalate", "red_flag_detected", "red_flag_symptom", "next_question"}

\* the disease analysis has been merged into the result of assess_triage
Merged == assessed # None /\ disease_analysis # None /\ triage_result # None

\* C13: merging the disease analysis changes at most recommended_next_steps and summary
\* of the TriageResult: triage_level, escalate, red_flag_detected, red_flag_symptom and
\* next_question stay as assess_triage returned them, also in the result returned, so
\* an emergency level is not lowered by a disease guess.
C13_MergeKeepsAssessment ==
    /\ Merged =>
          /\ \A f \in KeptFields : triage_result[1][f] = assessed[1][f]
          /\ DOMAIN triage_result[1] = DOMAIN assessed[1]
          /\ assessed[1].triage_level = "emergency" => triage_result[1].triage_level = "emergency"
    /\ (Returned /\ assessed # None) => \A f \in KeptFields : Result[f] = assessed[1][f]

\* C13 witness: the oracle assesses an emergency, the scorer finds dengue with enough
\* confidence, the steps and the summary are changed and the level is still emergency
C13_Witness ==
    /\ Returned
    /\ Merged
    /\ assessed[1].triage_level = "emergency"
    /\ disease_analysis[1].likely_type = dengue
    /\ Confident(disease_analysis[1])
    /\ Result.recommended_next_steps # assessed[1].recommended_next_steps
    /\ Result.summary # assessed[1].summary
    /\ Result.triage_level = "emergency"

\* C15: after a request has completed, the row stored for its session is that of this
\* request alone: the messages are the conversation_history supplied, the user message
\* and the reply; triage_level and summary are those of the TriageResult returned; and
\* the red-flag field is non-null exactly when that result has red_flag_detected.
C15_StoredIsLastRequest ==
    Returned =>
        /\ Stored # None
        /\ Stored[1].messages = Transcript(Req, response[1].message)
        /\ Len(Stored[1].messages) = Len(Req.conversation_history) + 2
        /\ Stored[1].triage_level = Some(Result.triage_level)
        /\ Stored[1].summary = Some(Result.summary)
        /\ (Stored[1].red_flag_detected # None) <=> Result.red_flag_detected

\* the short circuit returns a summary and stores none, over the summary of an earlier turn
SummaryNotStored ==
    /\ Returned
    /\ assessed = None
    /\ EmergencyFlagged(Req)
    /\ Req.message = MsgHello
    /\ db_before[Req.session_id] # None
    /\ db_before[Req.session_id][1].summary # None
    /\ Result.summary = RedFlagSummaryPrefix \o SelectorRedFlag
    /\ Stored[1].summary = None

\* the oracle flags a red flag without naming the symptom, and the row stores no red flag
RedFlagNotStored ==
    /\ Returned
    /\ assessed # None
    /\ Result.red_flag_detected
    /\ Stored[1].red_flag_detected = None

\* what the row does hold after a request: its transcript and its level
StoredTranscriptAndLevel ==
    Returned =>
        /\ Stored # None
        /\ Stored[1].messages = Transcript(Req, response[1].message)
        /\ Stored[1].triage_level = Some(Result.triage_level)
=============================================================================
